---- MODULE Spec2Model ----
(***************************************************************************)
(* Model of ranking-checker.py: the command-line entry point (__main__)    *)
(* and google_search, the paginated search with credential rotation,       *)
(* early exit on the target domain, and the append-only result log.        *)
(***************************************************************************)
EXTENDS Integers, Sequences, FiniteSets, TLC

VARIABLES
    API_KEYS,       \* configured API keys (ranking-checker.py:112)
    CXS,            \* configured search-engine ids (ranking-checker.py:120)
    num_results,    \* --results
    target_domain,  \* --domain, a sequence of characters
    pc,             \* where the process is
    exitCode,       \* process exit code, Running while the process runs
    start,          \* params['start'] of the current page
    num,            \* params['num'] of the current page
    attempt,        \* credential attempts already made for the current page
    cursor,         \* number of pairs already drawn from key_cycle
    results,        \* accumulated result items
    position,       \* matched position, NoPosition for None
    found_link,     \* matched link, NoLink for None
    out,            \* messages printed to standard output, in order
    file,           \* lines of the result log file
    reqCount,       \* requests issued so far in the session
    okCount,        \* responses so far that carried an 'items' list
    pageLog,        \* attempts made for the current page: key, cx, outcome
    lastReq,        \* parameters of the latest request
    lastItems,      \* links of the items of the latest response with items
    shortPages,     \* responses so far with fewer items than asked for
    quotaKeys,      \* keys that have been answered with HTTP 429 so far
    slept,          \* courtesy delays taken so far
    err             \* uncaught exceptions reported on standard error

vars == <<API_KEYS, CXS, num_results, target_domain, pc, exitCode, start, num,
          attempt, cursor, results, position, found_link, out, file,
          reqCount, okCount, pageLog, lastReq, lastItems, shortPages,
          quotaKeys, slept, err>>

----------------------------------------------------------------------------
(* Bounds of the model *)

MaxCreds == 2
MaxResults == 11
MaxShort == 1
MaxPartial == 1
MaxRuns == 2

(* Program constants *)

PageSize == 10
NoPosition == 0
NoLink == "None"
Running == -1

----------------------------------------------------------------------------
(* Strings are sequences of one-character strings. *)

Lower(c) ==
    CASE c = "A" -> "a"
      [] c = "B" -> "b"
      [] c = "C" -> "c"
      [] c = "D" -> "d"
      [] OTHER -> c

LowerStr(s) == [i \in 1..Len(s) |-> Lower(s[i])]

\* Python's `sub in s` on strings
Contains(sub, s) ==
    \E i \in 0..(Len(s) - Len(sub)) : SubSeq(s, i + 1, i + Len(sub)) = sub

\* first index >= i of a character of C in s, Len(s)+1 when there is none
FindFrom(s, C, i) ==
    IF \E j \in i..Len(s) : s[j] \in C
    THEN CHOOSE j \in i..Len(s) : s[j] \in C /\ \A k \in i..(j - 1) : s[k] \notin C
    ELSE Len(s) + 1

\* urlparse(link).netloc: drop "scheme:", then what follows "//" up to the
\* first of "/", "?", "#"
Netloc(url) ==
    LET c == FindFrom(url, {":"}, 1)
        rest == IF c > 1 /\ c <= Len(url) /\ \A k \in 1..(c - 1) : url[k] \notin {"/", "?", "#"}
                THEN SubSeq(url, c + 1, Len(url))
                ELSE url
    IN  IF Len(rest) >= 2 /\ rest[1] = "/" /\ rest[2] = "/"
        THEN SubSeq(rest, 3, FindFrom(rest, {"/", "?", "#"}, 3) - 1)
        ELSE << >>

----------------------------------------------------------------------------
(* The links that responses carry, by name, and their text. Every item of  *)
(* a response carries a link, an absolute URL.                             *)

Fillers == {"other", "inPath"}
Hits == {"host", "subHostUpper"}
Links == Fillers \cup Hits

Url(l) ==
    CASE l = "other"        -> <<"h", ":", "/", "/", "a", ".", "d", "/", "x">>
      [] l = "inPath"       -> <<"h", ":", "/", "/", "a", ".", "d", "/", "b", ".", "c">>
      [] l = "host"         -> <<"h", ":", "/", "/", "b", ".", "c", "/", "x">>
      [] l = "subHostUpper" -> <<"h", ":", "/", "/", "A", ".", "B", ".", "C", "/">>
      [] l = "subHost"      -> <<"h", ":", "/", "/", "a", ".", "b", ".", "c", "/">>
      [] l = "glued"        -> <<"h", ":", "/", "/", "a", "b", ".", "c", "/">>
      [] l = "suffixed"     -> <<"h", ":", "/", "/", "b", ".", "c", ".", "d", "/">>
      [] l = "inQuery"      -> <<"h", ":", "/", "/", "a", ".", "d", "?", "b", ".", "c">>
      [] l = "inFragment"   -> <<"h", ":", "/", "/", "a", ".", "d", "#", "b", ".", "c">>
      [] l = "inUserinfo"   -> <<"h", ":", "/", "/", "b", ".", "c", "@", "a", ".", "d", "/">>
      [] l = "withPort"     -> <<"h", ":", "/", "/", "b", ".", "c", ":", "8", "/">>

Targets == { << >>, <<"B", ".", "c">> }

\* ranking-checker.py:75
IsTarget(target, l) ==
    /\ target # << >>
    /\ Contains(LowerStr(target), LowerStr(Netloc(Url(l))))

----------------------------------------------------------------------------
(* Responses of the search API to one request. *)

\* n items: filler f before index p, link h from index p on (p = 0: only f)
Items(n, f, p, h) == [i \in 1..n |-> IF p > 0 /\ i >= p THEN h ELSE f]

Flavours == { [f |-> "other", h |-> "host"], [f |-> "inPath", h |-> "subHostUpper"] }

\* the API returns at most the `num` items asked for: a full page, or a short
\* one of at most MaxShort items
PageLens(maxn) == (0..(IF MaxShort < maxn THEN MaxShort ELSE maxn)) \cup {maxn}

ItemLists(maxn) ==
    { Items(n, fl.f, p, fl.h) : n \in PageLens(maxn), p \in 0..maxn, fl \in Flavours }

FailKinds == {"quota", "error", "noitems"}

Responses(maxn) ==
    { [kind |-> k, items |-> << >>] : k \in FailKinds }
    \cup { [kind |-> "ok", items |-> its] : its \in ItemLists(maxn) }

----------------------------------------------------------------------------
(* Helpers of google_search *)

Min(a, b) == IF a < b THEN a ELSE b

\* zip(api_keys, cxs): pairs by position, as long as the shorter list
Zip(ks, cs) == [i \in 1..Min(Len(ks), Len(cs)) |-> <<ks[i], cs[i]>>]

\* NextPair of a cursor that never advances
NextPairStuck(cyc, c) == cyc[1]

\* NextPair of a cycle that is created anew for each page
NextPairPerPage(cyc, c) == cyc[(attempt % Len(cyc)) + 1]

\* the pair that the (c+1)-th next(key_cycle) returns
NextPair(cyc, c) == cyc[(c % Len(cyc)) + 1]

Msg(m, p, l) == [msg |-> m, position |-> p, link |-> l]
Say(m) == Msg(m, NoPosition, NoLink)

\* Collect without the return at line 78: the first match is recorded, the
\* rest of the response is still appended
RECURSIVE CollectKeepGoing(_, _, _)
CollectKeepGoing(res, items, target) ==
    IF items = << >>
    THEN [results |-> res, position |-> NoPosition, found_link |-> NoLink]
    ELSE LET link == Head(items)
             position_actual == Len(res) + 1
             res2 == Append(res, [link |-> link, position |-> position_actual])
             rest == CollectKeepGoing(res2, Tail(items), target)
         IN  IF IsTarget(target, link)
             THEN [results |-> rest.results, position |-> position_actual, found_link |-> link]
             ELSE rest

\* Collect without the return at line 78, a later match overwriting an
\* earlier one
RECURSIVE CollectLast(_, _, _)
CollectLast(res, items, target) ==
    IF items = << >>
    THEN [results |-> res, position |-> NoPosition, found_link |-> NoLink]
    ELSE LET link == Head(items)
             position_actual == Len(res) + 1
             res2 == Append(res, [link |-> link, position |-> position_actual])
             rest == CollectLast(res2, Tail(items), target)
         IN  IF IsTarget(target, link) /\ rest.position = NoPosition
             THEN [results |-> rest.results, position |-> position_actual, found_link |-> link]
             ELSE rest

\* Collect with positions counted from 0
RECURSIVE CollectZeroBased(_, _, _)
CollectZeroBased(res, items, target) ==
    IF items = << >>
    THEN [results |-> res, position |-> NoPosition, found_link |-> NoLink]
    ELSE LET link == Head(items)
             position_actual == Len(res)
             res2 == Append(res, [link |-> link, position |-> position_actual])
         IN  IF IsTarget(target, link)
             THEN [results |-> res2, position |-> position_actual, found_link |-> link]
             ELSE CollectZeroBased(res2, Tail(items), target)

\* Collect with positions that start at 1 on each page
RECURSIVE CollectPerPage(_, _, _)
CollectPerPage(res, items, target) ==
    IF items = << >>
    THEN [results |-> res, position |-> NoPosition, found_link |-> NoLink]
    ELSE LET link == Head(items)
             position_actual == Len(res) - Len(results) + 1
             res2 == Append(res, [link |-> link, position |-> position_actual])
         IN  IF IsTarget(target, link)
             THEN [results |-> res2, position |-> position_actual, found_link |-> link]
             ELSE CollectPerPage(res2, Tail(items), target)

\* Collect without the assignment of line 77
RECURSIVE CollectPositionOnly(_, _, _)
CollectPositionOnly(res, items, target) ==
    IF items = << >>
    THEN [results |-> res, position |-> NoPosition, found_link |-> NoLink]
    ELSE LET link == Head(items)
             position_actual == Len(res) + 1
             res2 == Append(res, [link |-> link, position |-> position_actual])
         IN  IF IsTarget(target, link)
             THEN [results |-> res2, position |-> position_actual, found_link |-> NoLink]
             ELSE CollectPositionOnly(res2, Tail(items), target)

\* the item loop, ranking-checker.py:64-78: append each item with the next
\* global position and return at the first item on the target domain
RECURSIVE Collect(_, _, _)
Collect(res, items, target) ==
    IF items = << >>
    THEN [results |-> res, position |-> NoPosition, found_link |-> NoLink]
    ELSE LET link == Head(items)
             position_actual == Len(res) + 1
             res2 == Append(res, [link |-> link, position |-> position_actual])
         IN  IF IsTarget(target, link)
             THEN [results |-> res2, position |-> position_actual, found_link |-> link]
             ELSE Collect(res2, Tail(items), target)

\* LoopHead asking for a full page whatever was collected
LoopHeadFullPage(s, res) ==
    IF s > num_results
    THEN [pc |-> "returned", start |-> start, num |-> num, said |-> << >>]
    ELSE IF Len(API_KEYS) = 0
         THEN [pc |-> "returned", start |-> s, num |-> PageSize, said |-> <<Say("allfailed")>>]
         ELSE [pc |-> "attempt", start |-> s, num |-> PageSize, said |-> << >>]

\* LoopHead with a range that ends one page later
LoopHeadPastBudget(s, res) ==
    IF s > num_results + PageSize
    THEN [pc |-> "returned", start |-> start, num |-> num, said |-> << >>]
    ELSE LET n == Min(PageSize, num_results - Len(res))
         IN  IF Len(API_KEYS) = 0
             THEN [pc |-> "returned", start |-> s, num |-> n, said |-> <<Say("allfailed")>>]
             ELSE [pc |-> "attempt", start |-> s, num |-> n, said |-> << >>]

\* head of the page loop for the offset s, ranking-checker.py:35-44 and 83-85:
\* the loop is over when s is past num_results; with no key at all the page
\* has no attempt and fails at once
LoopHead(s, res) ==
    IF s > num_results
    THEN [pc |-> "returned", start |-> start, num |-> num, said |-> << >>]
    ELSE LET n == Min(PageSize, num_results - Len(res))
         IN  IF Len(API_KEYS) = 0
             THEN [pc |-> "returned", start |-> s, num |-> n, said |-> <<Say("allfailed")>>]
             ELSE [pc |-> "attempt", start |-> s, num |-> n, said |-> << >>]

\* the credential check with > in place of !=
PoolValidAtLeast(ks, cs) == Len(ks) >= Len(cs)

\* the credential check of __main__, ranking-checker.py:128
PoolValid(ks, cs) == Len(ks) = Len(cs)

\* Failed without the test of line 60
FailedWithoutItemsTest(resp) == resp.kind \in {"quota", "error"}

\* the tests that end an attempt without items, ranking-checker.py:51-62:
\* status 429, an exception of the request or of the parsing, no 'items' key
Failed(resp) == resp.kind \in FailKinds

\* Continue with the result list started anew for the next credential
ContinueCleared(o) == << << >>, o[2], o[3] >>

\* the `continue` of lines 53, 58 and 62: the outcome o (results, position,
\* found_link) goes to the next attempt as it is
Continue(o) == o

\* AfterFailure with `continue` in place of the break of line 85
AfterFailureNextPage(a) == IF a < Len(API_KEYS) THEN "attempt" ELSE "sleep"

\* AfterFailure with one attempt too many
AfterFailureOneMore(a) == IF a <= Len(API_KEYS) THEN "attempt" ELSE "returned"

\* after the a-th attempt of a page failed, ranking-checker.py:44 and 83-85:
\* the next credential, or the end of the search when none is left
AfterFailure(a) == IF a < Len(API_KEYS) THEN "attempt" ELSE "returned"

\* AfterSuccess with > in place of >= at line 87
AfterSuccessStrict(c) ==
    IF c.position # NoPosition THEN "returned"
    ELSE IF Len(c.results) > num_results THEN "returned"
    ELSE "sleep"

\* AfterSuccess with a break out of the item loop in place of the return
AfterSuccessNoReturn(c) ==
    IF Len(c.results) >= num_results THEN "returned" ELSE "sleep"

\* after the items of a response were collected into c, ranking-checker.py:
\* 78-90: return on a match, stop when the budget is reached, else sleep
AfterSuccess(c) ==
    IF c.position # NoPosition THEN "returned"
    ELSE IF Len(c.results) >= num_results THEN "returned"
    ELSE "sleep"

\* the file opened with mode "w" in place of "a"
WriteOver(old, lines) == lines

\* open(output_file, "a") and the writes, ranking-checker.py:152-154: the
\* lines go after what the file holds
AppendTo(old, lines) == old \o lines

\* the lines that the sink writes, ranking-checker.py:153-154
LogLines(res) == [i \in 1..Len(res) |-> [date |-> "today", link |-> res[i].link, position |-> res[i].position]]

----------------------------------------------------------------------------
(* Initial states: the configuration, the arguments and the log file left  *)
(* by earlier runs.                                                        *)

Key(i) == <<"key", i>>
Cx(i) == <<"cx", i>>

\* the file holds a line of an earlier run
OldFile == <<[date |-> "earlier", link |-> "other", position |-> 1]>>

Init ==
    /\ \E nk \in 0..MaxCreds : API_KEYS = [i \in 1..nk |-> Key(i)]
    /\ \E nc \in 0..MaxCreds : CXS = [i \in 1..nc |-> Cx(i)]
    /\ num_results \in (0 - 1)..MaxResults
    /\ target_domain \in Targets
    /\ file = OldFile
    /\ pc = "main"
    /\ exitCode = Running
    /\ start = 0
    /\ num = 0
    /\ attempt = 0
    /\ cursor = 0
    /\ results = << >>
    /\ position = NoPosition
    /\ found_link = NoLink
    /\ out = << >>
    /\ err = << >>
    /\ reqCount = 0
    /\ okCount = 0
    /\ pageLog = << >>
    /\ lastReq = [start |-> 0, num |-> 0, key |-> Key(0), cx |-> Cx(0)]
    /\ lastItems = << >>
    /\ shortPages = 0
    /\ quotaKeys = {}
    /\ slept = 0

config == <<API_KEYS, CXS, num_results, target_domain>>
outcome == <<results, position, found_link>>
network == <<reqCount, okCount, pageLog, lastReq, lastItems, shortPages,
             quotaKeys, cursor>>

----------------------------------------------------------------------------
(* Actions *)

\* __main__ up to the call of google_search and into its first page,
\* ranking-checker.py:128-132 and 21-44
Validate ==
    /\ pc = "main"
    /\ IF ~PoolValid(API_KEYS, CXS)
       THEN /\ out' = Append(out, Say("mismatch"))
            /\ exitCode' = 1
            /\ pc' = "exited"
            /\ UNCHANGED <<start, num>>
       ELSE LET h == LoopHead(1, << >>)
            IN  /\ out' = Append(out, Say("searching")) \o h.said
                /\ pc' = h.pc
                /\ start' = h.start
                /\ num' = h.num
                /\ UNCHANGED exitCode
    /\ UNCHANGED <<config, outcome, network, attempt, file, slept, err>>

\* one credential attempt, ranking-checker.py:45-88: draw the next pair,
\* send the request, classify the response, collect its items. Of the lines
\* printed here, out keeps "allfailed" (line 84); the per-credential warnings
\* (lines 52, 57, 61) are recorded by kind in pageLog.
Attempt(resp) ==
    /\ pc = "attempt"
    /\ LET cyc == Zip(API_KEYS, CXS)
       IN  IF cyc = << >>
           THEN \* next() of an empty cycle raises StopIteration
                /\ err' = Append(err, "StopIteration")
                /\ exitCode' = 1
                /\ pc' = "exited"
                /\ UNCHANGED <<outcome, network, attempt, out>>
           ELSE LET pair == NextPair(cyc, cursor)
                IN  /\ cursor' = cursor + 1
                    /\ reqCount' = reqCount + 1
                    /\ lastReq' = [start |-> start, num |-> num, key |-> pair[1], cx |-> pair[2]]
                    /\ pageLog' = Append(pageLog, [key |-> pair[1], cx |-> pair[2], kind |-> resp.kind])
                    /\ UNCHANGED <<exitCode, err>>
                    /\ IF Failed(resp)
                       THEN /\ attempt' = attempt + 1
                            /\ pc' = AfterFailure(attempt + 1)
                            /\ out' = IF AfterFailure(attempt + 1) = "attempt"
                                      THEN out
                                      ELSE Append(out, Say("allfailed"))
                            /\ quotaKeys' = IF resp.kind = "quota"
                                            THEN quotaKeys \cup {pair[1]}
                                            ELSE quotaKeys
                            /\ results' = Continue(<<results, position, found_link>>)[1]
                            /\ position' = Continue(<<results, position, found_link>>)[2]
                            /\ found_link' = Continue(<<results, position, found_link>>)[3]
                            /\ UNCHANGED <<okCount, lastItems, shortPages>>
                       ELSE LET c == Collect(results, resp.items, target_domain)
                            IN  /\ results' = c.results
                                /\ position' = c.position
                                /\ found_link' = c.found_link
                                /\ okCount' = okCount + 1
                                /\ lastItems' = resp.items
                                /\ shortPages' = IF Len(resp.items) < num
                                                 THEN shortPages + 1
                                                 ELSE shortPages
                                /\ pc' = AfterSuccess(c)
                                /\ UNCHANGED <<attempt, out, quotaKeys>>
    /\ UNCHANGED <<config, start, num, file, slept>>

\* Sleep with the items collected so far written to the log
SleepFlushing ==
    /\ pc = "sleep"
    /\ slept' = slept + 1
    /\ file' = file \o LogLines(results)
    /\ LET h == LoopHead(start + PageSize, results)
       IN  /\ pc' = h.pc
           /\ start' = h.start
           /\ num' = h.num
           /\ out' = out \o h.said
    /\ attempt' = 0
    /\ pageLog' = << >>
    /\ UNCHANGED <<config, outcome, reqCount, okCount, lastReq, lastItems,
                   shortPages, quotaKeys, cursor, exitCode, err>>

\* the courtesy delay and the step to the next page, ranking-checker.py:90
\* and 35-44
Sleep ==
    /\ pc = "sleep"
    /\ slept' = slept + 1
    /\ LET h == LoopHead(start + PageSize, results)
       IN  /\ pc' = h.pc
           /\ start' = h.start
           /\ num' = h.num
           /\ out' = out \o h.said
    /\ attempt' = 0
    /\ pageLog' = << >>
    /\ UNCHANGED <<config, outcome, reqCount, okCount, lastReq, lastItems,
                   shortPages, quotaKeys, cursor, exitCode, file, err>>

\* the final verdict, ranking-checker.py:142-146
Verdict ==
    /\ pc = "returned"
    /\ out' = Append(out, IF position # NoPosition
                          THEN Msg("found", position, found_link)
                          ELSE Msg("notfound", num_results, NoLink))
    /\ pc' = "sink"
    /\ UNCHANGED <<config, outcome, network, start, num, attempt, exitCode,
                   file, slept, err>>

SinkOutcomes == {"ok", "openfail", "writefail"}

\* the result sink, ranking-checker.py:148-156: append one line per item;
\* an OSError of open or write is not caught, and a failing write leaves the
\* first k lines in the file
SaveResults(how, k) ==
    /\ pc = "sink"
    /\ pc' = "exited"
    /\ CASE how = "ok" ->
              /\ file' = AppendTo(file, LogLines(results))
              /\ out' = Append(out, Say("saved"))
              /\ exitCode' = 0
              /\ UNCHANGED err
         [] how = "openfail" ->
              /\ err' = Append(err, "OSError")
              /\ exitCode' = 1
              /\ UNCHANGED <<file, out>>
         [] how = "writefail" ->
              /\ file' = AppendTo(file, SubSeq(LogLines(results), 1, k))
              /\ err' = Append(err, "OSError")
              /\ exitCode' = 1
              /\ UNCHANGED out
    /\ UNCHANGED <<config, outcome, network, start, num, attempt, slept>>

Next ==
    \/ Validate
    \/ \E resp \in Responses(num) : Attempt(resp)
    \/ Sleep
    \/ Verdict
    \/ \E how \in SinkOutcomes, k \in 0..Min(Len(results), MaxPartial) :
          SaveResults(how, k)

Spec == Init /\ [][Next]_vars

----------------------------------------------------------------------------
(* The search alone, from the start of the process to the return of        *)
(* google_search, with its steps taken as long as one is possible: the     *)
(* process is running and every request returns within its timeout of 10   *)
(* seconds, ranking-checker.py:50.                                         *)

SearchNext ==
    \/ Validate
    \/ \E resp \in Responses(num) : Attempt(resp)
    \/ Sleep

SearchSpec == Init /\ [][SearchNext]_vars /\ WF_vars(SearchNext)

----------------------------------------------------------------------------
(* The result sink over several runs: the process is run again on the same *)
(* keyword and country and computes the same outcome, so that it reaches   *)
(* the sink with the log file that the earlier run left.                   *)

\* runs that have ended
RunsDone == Cardinality({ i \in 1..Len(out) : out[i].msg = "saved" }) + Len(err)

\* the states in which a one-page search with one credential reaches the
\* sink, ranking-checker.py:134-148
SinkInit ==
    /\ API_KEYS = <<Key(1)>>
    /\ CXS = <<Cx(1)>>
    /\ num_results = PageSize
    /\ target_domain \in Targets
    /\ \E its \in ItemLists(PageSize) :
          LET c == Collect(<< >>, its, target_domain)
          IN  /\ lastItems = its
              /\ results = c.results
              /\ position = c.position
              /\ found_link = c.found_link
              /\ shortPages = IF Len(its) < PageSize THEN 1 ELSE 0
              /\ slept = IF AfterSuccess(c) = "sleep" THEN 1 ELSE 0
              /\ out = << Say("searching"),
                          IF c.position # NoPosition
                          THEN Msg("found", c.position, c.found_link)
                          ELSE Msg("notfound", PageSize, NoLink) >>
    /\ file = OldFile
    /\ pc = "sink"
    /\ exitCode = Running
    /\ start = 1
    /\ num = PageSize
    /\ attempt = 0
    /\ cursor = 1
    /\ err = << >>
    /\ reqCount = 1
    /\ okCount = 1
    /\ pageLog = <<[key |-> Key(1), cx |-> Cx(1), kind |-> "ok"]>>
    /\ lastReq = [start |-> 1, num |-> PageSize, key |-> Key(1), cx |-> Cx(1)]
    /\ quotaKeys = {}

\* another run of the process with the same outcome, up to the sink,
\* ranking-checker.py:95-148
RunAgain ==
    /\ pc = "exited"
    /\ RunsDone < MaxRuns
    /\ pc' = "sink"
    /\ exitCode' = Running
    /\ out' = out \o << Say("searching"),
                        IF position # NoPosition
                        THEN Msg("found", position, found_link)
                        ELSE Msg("notfound", num_results, NoLink) >>
    /\ UNCHANGED <<config, outcome, network, start, num, attempt, file, slept, err>>

SinkNext ==
    \/ \E how \in SinkOutcomes, k \in 0..Min(Len(results), MaxPartial) :
          SaveResults(how, k)
    \/ RunAgain

SinkSpec == SinkInit /\ [][SinkNext]_vars

----------------------------------------------------------------------------
(* The position resolver on its own: a search for one result with one      *)
(* credential, answered with one item, over more links and targets.        *)

MatchLinks ==
    Links \cup {"subHost", "glued", "suffixed", "inQuery", "inFragment",
                "inUserinfo", "withPort"}

MatchTargets ==
    { <<"b", ".", "c">>, <<"B", ".", "c">>, <<"a", ".", "d">>, <<"A", ".", "D">>,
      <<"c">>, <<"d", "/", "x">> }

\* google_search entered for one result, ranking-checker.py:21-44
MatchInit ==
    /\ API_KEYS = <<Key(1)>>
    /\ CXS = <<Cx(1)>>
    /\ num_results = 1
    /\ target_domain \in MatchTargets
    /\ file = OldFile
    /\ pc = "attempt"
    /\ exitCode = Running
    /\ start = 1
    /\ num = 1
    /\ attempt = 0
    /\ cursor = 0
    /\ results = << >>
    /\ position = NoPosition
    /\ found_link = NoLink
    /\ out = <<Say("searching")>>
    /\ err = << >>
    /\ reqCount = 0
    /\ okCount = 0
    /\ pageLog = << >>
    /\ lastReq = [start |-> 0, num |-> 0, key |-> Key(0), cx |-> Cx(0)]
    /\ lastItems = << >>
    /\ shortPages = 0
    /\ quotaKeys = {}
    /\ slept = 0

MatchNext ==
    \/ \E l \in MatchLinks : Attempt([kind |-> "ok", items |-> <<l>>])
    \/ Verdict

MatchSpec == MatchInit /\ [][MatchNext]_vars

----------------------------------------------------------------------------
(* Properties *)

\* google_search has returned (or the process has ended)
Returned == pc \in {"returned", "sink", "exited"}

Matching(res) == { i \in 1..Len(res) : IsTarget(target_domain, res[i].link) }

\* C1 (early exit): a collected item on the target domain is the last item
\* collected, the search has returned with its position and link, and once a
\* position is set no request is issued, no pair is drawn and no item is
\* appended.
C1_Matched ==
    \A i \in Matching(results) :
        /\ i = Len(results)
        /\ position = results[i].position
        /\ found_link = results[i].link
        /\ Returned
C1_EarlyExit ==
    /\ []C1_Matched
    /\ [][position # NoPosition =>
            /\ reqCount' = reqCount
            /\ cursor' = cursor
            /\ slept' = slept
            /\ outcome' = outcome]_vars

\* a match on page 1 in the middle of a response, with a second page and a
\* second credential left unused
C1_Witness ==
    /\ pc = "returned"
    /\ position # NoPosition
    /\ position < Len(lastItems)
    /\ start + PageSize <= num_results
    /\ attempt + 1 < Len(API_KEYS)

\* C2 (tie-break): at the return of google_search a reported position is the
\* lowest position of a collected item on the target domain, and with a
\* non-empty target and no position reported no collected item is on it.
C2_FirstOccurrence ==
    pc = "returned" =>
        /\ position # NoPosition =>
              /\ position \in Matching(results)
              /\ \A q \in Matching(results) : position <= q
        /\ (position = NoPosition /\ target_domain # << >>) => Matching(results) = {}

\* a match was reported from a response that holds a later item on the target
C2_Witness ==
    /\ pc = "returned"
    /\ position # NoPosition
    /\ \E j \in (position + 1)..Len(lastItems) : IsTarget(target_domain, lastItems[j])
    /\ Len(results) > 1

\* every credential was tried for the current page and none succeeded
Exhausted ==
    /\ pageLog # << >>
    /\ Len(pageLog) = Len(API_KEYS)
    /\ \A i \in 1..Len(pageLog) : pageLog[i].kind \in FailKinds

\* C3 (exhausted credentials): when all attempts of a page failed the search
\* has returned unmatched, the failing attempts left the accumulated items as
\* they were, and no request, delay or item follows.
C3_ExhaustedStops ==
    /\ [](Exhausted => Returned /\ position = NoPosition /\ found_link = NoLink)
    /\ [][/\ (reqCount' # reqCount /\ pageLog'[Len(pageLog')].kind \in FailKinds)
              => outcome' = outcome
          /\ Exhausted => /\ reqCount' = reqCount
                          /\ slept' = slept
                          /\ outcome' = outcome]_vars

\* the second page failed on every credential after the first page was kept
C3_Witness ==
    /\ Exhausted
    /\ pc = "returned"
    /\ start > 1
    /\ results # << >>
    /\ Len(API_KEYS) > 1

AllQuotaOnPageOne ==
    /\ start = 1
    /\ pageLog # << >>
    /\ Len(pageLog) = Len(API_KEYS)
    /\ \A i \in 1..Len(pageLog) : pageLog[i].kind = "quota"

\* C4 (all keys over quota on page 1): the search is over, with no match and
\* an empty result list, whatever num_results is.
C4_AllQuota ==
    AllQuotaOnPageOne => Returned /\ position = NoPosition /\ results = << >>

C4_Witness ==
    /\ AllQuotaOnPageOne
    /\ Len(API_KEYS) > 1
    /\ num_results > PageSize
    /\ pc = "exited"

\* C5 (configuration error): with key and id lists of different lengths no
\* request is ever made and the process ends with exit code 1 after the
\* error message.
C5_ConfigError ==
    Len(API_KEYS) # Len(CXS) =>
        /\ reqCount = 0
        /\ pc \in {"main", "exited"}
        /\ pc = "exited" => exitCode = 1 /\ out = <<Say("mismatch")>>

C5_Witness ==
    /\ Len(API_KEYS) > Len(CXS)
    /\ Len(CXS) > 0
    /\ pc = "exited"

\* index of the first item of a response on the target domain, 0 if none
FirstTarget(items) ==
    IF \E i \in 1..Len(items) : IsTarget(target_domain, items[i])
    THEN CHOOSE i \in 1..Len(items) :
            /\ IsTarget(target_domain, items[i])
            /\ \A j \in 1..(i - 1) : ~IsTarget(target_domain, items[j])
    ELSE 0

\* the lines added to the log file by this run
Written == SubSeq(file, Len(OldFile) + 1, Len(file))

\* two credentials, the first answered 429, the second answered page 1 with
\* its first item on the target at index 3
C6_Scenario ==
    /\ Len(API_KEYS) = 2
    /\ start = 1
    /\ pageLog = << [key |-> Key(1), cx |-> Cx(1), kind |-> "quota"],
                    [key |-> Key(2), cx |-> Cx(2), kind |-> "ok"] >>
    /\ FirstTarget(lastItems) = 4

\* C6 as stated (rotation past a quota-exhausted key): position 4, one
\* successful call, no second page, and one log line for each item of the
\* successful response.
C6_AsStated ==
    C6_Scenario =>
        /\ Returned
        /\ position = 4
        /\ okCount = 1
        /\ reqCount = 2
        /\ slept = 0
        /\ (pc = "exited" /\ exitCode = 0) => Len(Written) = Len(lastItems)

\* C6 as amended: the log receives one line for each item of the response up
\* to and including the item on the target, 4 lines with positions 1 to 4.
C6_RotationPastQuota ==
    C6_Scenario =>
        /\ Returned
        /\ position = 4
        /\ found_link = lastItems[4]
        /\ okCount = 1
        /\ reqCount = 2
        /\ slept = 0
        /\ (pc = "exited" /\ exitCode = 0) =>
              Written = [i \in 1..4 |-> [date |-> "today", link |-> lastItems[i], position |-> i]]

\* the scenario with a response of more than 4 items, written to the log
C6_Witness ==
    /\ C6_Scenario
    /\ Len(lastItems) > 4
    /\ pc = "exited"
    /\ exitCode = 0

\* the page at offset 1 was answered with a first item on the target domain
C7_FirstItemOnTarget ==
    /\ start = 1
    /\ okCount >= 1
    /\ lastItems # << >>
    /\ IsTarget(target_domain, lastItems[1])

\* C7 as stated: position 1, and the session has no second credential attempt
\* and no second page.
C7_AsStated ==
    C7_FirstItemOnTarget => position = 1 /\ reqCount = 1 /\ slept = 0

\* C7 as amended: position 1, and no request follows the response that
\* carried the item: no second page, no further credential attempt. The
\* requests before it are failed attempts for page 1.
C7_FirstItem ==
    /\ [](C7_FirstItemOnTarget =>
            /\ Returned
            /\ position = 1
            /\ found_link = lastItems[1]
            /\ results = <<[link |-> lastItems[1], position |-> 1]>>
            /\ slept = 0
            /\ okCount = 1
            /\ reqCount = Len(pageLog)
            /\ reqCount <= Len(API_KEYS)
            /\ \A i \in 1..(Len(pageLog) - 1) : pageLog[i].kind \in FailKinds)
    /\ [][C7_FirstItemOnTarget =>
            /\ reqCount' = reqCount
            /\ cursor' = cursor
            /\ start' = start
            /\ slept' = slept]_vars

\* the first credential failed, the second returned the item, pages remain
C7_Witness ==
    /\ C7_FirstItemOnTarget
    /\ Len(pageLog) = 2
    /\ Len(lastItems) > 1
    /\ num_results > PageSize
    /\ pc = "sink"

CeilDiv(a, b) == (a + b - 1) \div b

\* the search is over, every request was answered with items, no collected
\* item is on the target domain
C8_AllFirstTry ==
    /\ Len(API_KEYS) = Len(CXS)
    /\ Len(API_KEYS) > 0
    /\ num_results >= 0
    /\ Returned
    /\ reqCount = okCount
    /\ Matching(results) = {}

\* C8 (target absent): exactly ceil(num_results / 10) pages are requested,
\* the outcome is unmatched, at most num_results items are collected, and
\* exactly num_results when no page was short; a log written without error
\* has one line per collected item. Stated for num_results >= 0.
C8_TargetAbsent ==
    C8_AllFirstTry =>
        /\ reqCount = CeilDiv(num_results, PageSize)
        /\ position = NoPosition
        /\ found_link = NoLink
        /\ Len(results) <= num_results
        /\ shortPages = 0 => Len(results) = num_results
        /\ (pc = "exited" /\ exitCode = 0) => Len(Written) = Len(results)

\* two full pages without the target, written to the log
C8_Witness ==
    /\ C8_AllFirstTry
    /\ target_domain # << >>
    /\ num_results > PageSize
    /\ shortPages = 0
    /\ reqCount = 2
    /\ pc = "exited"
    /\ exitCode = 0

\* C9 (rotation order): the k-th request of the session uses key and id
\* number ((k-1) mod n) of the n configured pairs, across page boundaries,
\* and the configured pairs never change.
C9_Rotation ==
    [][/\ API_KEYS' = API_KEYS
       /\ CXS' = CXS
       /\ reqCount' # reqCount =>
            /\ reqCount' = reqCount + 1
            /\ cursor' = reqCount'
            /\ lastReq'.key = API_KEYS[(reqCount % Len(API_KEYS)) + 1]
            /\ lastReq'.cx = CXS[(reqCount % Len(API_KEYS)) + 1]]_vars

\* on a later page the cursor has come back to a key that was answered 429 on
\* an earlier page, and the key has now succeeded
C9_Witness ==
    /\ start > 1
    /\ reqCount > Len(API_KEYS)
    /\ pageLog # << >>
    /\ pageLog[Len(pageLog)].kind = "ok"
    /\ pageLog[Len(pageLog)].key \in quotaKeys
    /\ lastReq.key = pageLog[Len(pageLog)].key

\* C10 as stated (sink failure isolation): when opening or writing the log
\* file fails, the verdict has been printed and the exit code is 0.
C10_SinkIsolated ==
    (pc = "exited" /\ \E i \in 1..Len(err) : err[i] = "OSError") =>
        /\ \E i \in 1..Len(out) : out[i].msg \in {"found", "notfound"}
        /\ exitCode = 0

\* the verdicts printed so far
Verdicts == { i \in 1..Len(out) : out[i].msg \in {"found", "notfound"} }

\* C11 as stated (final verdict): a run that passed the credential check has
\* printed exactly one verdict when it ends, after the search, the position
\* and link if and only if a match was found, and its exit code is 0.
C11_FinalVerdict ==
    (pc = "exited" /\ Len(API_KEYS) = Len(CXS)) =>
        /\ Cardinality(Verdicts) = 1
        /\ \A i \in Verdicts :
              out[i] = IF position # NoPosition
                       THEN Msg("found", position, found_link)
                       ELSE Msg("notfound", num_results, NoLink)
        /\ exitCode = 0

\* the part of C11 that holds: one verdict, printed after the search returned
\* and matching its outcome, in every run that passed the credential check
C11_VerdictOnce ==
    /\ (pc \in {"main", "attempt", "sleep", "returned"}) => Verdicts = {}
    /\ (pc \in {"sink", "exited"} /\ Len(API_KEYS) = Len(CXS)) =>
          /\ Cardinality(Verdicts) = 1
          /\ \A i \in Verdicts :
                out[i] = IF position # NoPosition
                         THEN Msg("found", position, found_link)
                         ELSE Msg("notfound", num_results, NoLink)

\* the line that the sink writes for the i-th collected item
LineOf(i) == [date |-> "today", link |-> results[i].link, position |-> i]

\* b blocks of one line per collected item, in position order
RECURSIVE Blocks(_)
Blocks(b) == IF b = 0 THEN << >> ELSE Blocks(b - 1) \o [i \in 1..Len(results) |-> LineOf(i)]

Saved == Cardinality({ i \in 1..Len(out) : out[i].msg = "saved" })

\* C12 (append-only sink): every step leaves the earlier content of the log
\* as a prefix of the new content, and after runs that wrote without error
\* the log is its earlier content followed by one block per run, each with
\* one line per collected item in position order, so two runs leave two
\* identical consecutive blocks.
C12_AppendOnly ==
    /\ [](err = << >> => file = OldFile \o Blocks(Saved))
    /\ [][/\ Len(file') >= Len(file)
          /\ SubSeq(file', 1, Len(file)) = file]_vars

\* the same outcome of several items written twice
C12_Witness ==
    /\ Saved = 2
    /\ err = << >>
    /\ Len(results) > 1
    /\ position # NoPosition
    /\ pc = "exited"

\* last index of the character ch in s, 0 when there is none
LastIndex(s, ch) ==
    IF \E j \in 1..Len(s) : s[j] = ch
    THEN CHOOSE j \in 1..Len(s) : s[j] = ch /\ \A k \in (j + 1)..Len(s) : s[k] # ch
    ELSE 0

\* the host component of a URL: its netloc without "userinfo@" and ":port"
Host(url) ==
    LET n == Netloc(url)
        hostinfo == SubSeq(n, LastIndex(n, "@") + 1, Len(n))
    IN  SubSeq(hostinfo, 1, FindFrom(hostinfo, {":"}, 1) - 1)

\* C13 as stated (position resolver): the item of a response matches if and
\* only if the lower-cased target is a substring of the lower-cased host
\* component of its link.
C13_HostSubstring ==
    okCount = 1 =>
        (position # NoPosition <=>
            Contains(LowerStr(target_domain), LowerStr(Host(Url(lastItems[1])))))

\* what the code tests: the netloc of the link, userinfo and port included
C13_NetlocSubstring ==
    okCount = 1 =>
        (position # NoPosition <=>
            Contains(LowerStr(target_domain), LowerStr(Netloc(Url(lastItems[1])))))

\* the step is a request, answered with the kind k
Answered(k) ==
    /\ reqCount' = reqCount + 1
    /\ pageLog'[Len(pageLog')].kind = k

\* the step treats its response as a failed attempt: nothing is appended, the
\* page is not served, the next credential is tried for the same page if one
\* is left
SoftFailure ==
    /\ outcome' = outcome
    /\ okCount' = okCount
    /\ slept' = slept
    /\ start' = start
    /\ attempt' = attempt + 1
    /\ cursor' = cursor + 1
    /\ pc' = IF attempt' < Len(API_KEYS) THEN "attempt" ELSE "returned"

\* C14 as stated (empty is a soft failure): a response that succeeded and
\* carries no result item, its 'items' missing or an empty list, is treated
\* as a failed attempt.
C14_NoItemsIsFailure ==
    [][(Answered("noitems") \/ (Answered("ok") /\ lastItems' = << >>))
          => SoftFailure]_vars

\* C14 as amended: a response that succeeded and has no 'items' field is
\* treated as a failed attempt.
C14_EmptyIsSoftFailure ==
    [][Answered("noitems") => SoftFailure]_vars

\* a credential answered without 'items', the next one served the page
C14_Witness ==
    /\ Len(pageLog) = 2
    /\ pageLog[1].kind = "noitems"
    /\ pageLog[2].kind = "ok"
    /\ results # << >>

\* C15 (failed attempts leave the outcome unchanged): an attempt answered
\* with 429, an error or no 'items' leaves the result list, the position and
\* the link as they were and draws one pair from the cycle.
C15_FailureFrame ==
    [][(Answered("quota") \/ Answered("error") \/ Answered("noitems")) =>
          /\ results' = results
          /\ position' = position
          /\ found_link' = found_link
          /\ cursor' = cursor + 1
          /\ file' = file]_vars

\* an attempt failed on the second page, with items of the first page kept
C15_Witness ==
    /\ start > 1
    /\ results # << >>
    /\ pageLog # << >>
    /\ pageLog[Len(pageLog)].kind = "quota"
    /\ pc = "attempt"

\* C16 (per-page attempt bound): the requests of a page are at most
\* len(api_keys), and no key and no search-engine id is used twice for it.
C16_AttemptBound ==
    /\ Len(pageLog) <= Len(API_KEYS)
    /\ attempt <= Len(API_KEYS)
    /\ \A i, j \in 1..Len(pageLog) :
          i # j => pageLog[i].key # pageLog[j].key /\ pageLog[i].cx # pageLog[j].cx

\* on a later page every credential was tried
C16_Witness ==
    /\ start > 1
    /\ Len(API_KEYS) > 1
    /\ Len(pageLog) = Len(API_KEYS)

\* C17 (global sequential positions): the i-th collected item has position
\* i, across page boundaries.
C17_SequentialPositions ==
    \A i \in 1..Len(results) : results[i].position = i

\* items of two pages were collected
C17_Witness ==
    /\ start > 1
    /\ Len(results) > PageSize
    /\ lastItems # << >>

\* a page succeeded without a match and the budget is reached
BudgetReached ==
    /\ pageLog # << >>
    /\ pageLog[Len(pageLog)].kind = "ok"
    /\ position = NoPosition
    /\ Len(results) >= num_results

\* C18 (budget stop): once a page succeeded without a match and the number
\* of collected items is at least num_results, the search has returned
\* unmatched and no request or delay follows.
C18_BudgetStop ==
    /\ [](BudgetReached => Returned /\ found_link = NoLink)
    /\ [][BudgetReached =>
            /\ reqCount' = reqCount
            /\ slept' = slept
            /\ outcome' = outcome]_vars

\* the budget was reached on the second page with a credential left
C18_Witness ==
    /\ BudgetReached
    /\ start > 1
    /\ Len(results) = num_results
    /\ Len(pageLog) < Len(API_KEYS)
    /\ pc = "returned"

\* C19 as stated (courtesy delay placement): a delay is taken only right
\* after a page that succeeded without a match, and it is followed by the
\* first credential attempt of the next page.
C19_DelayPlacement ==
    [][slept' # slept =>
          /\ pageLog # << >>
          /\ pageLog[Len(pageLog)].kind = "ok"
          /\ position = NoPosition
          /\ reqCount' = reqCount
          /\ pc' = "attempt"
          /\ attempt' = 0
          /\ start' = start + PageSize]_vars

\* C20 (log written only at the end): the log file is as the earlier runs
\* left it until google_search has returned and the verdict is printed, and
\* every write appends lines of the final result list, in order.
C20_LogAtEnd ==
    /\ [](pc \in {"main", "attempt", "sleep", "returned"} => file = OldFile)
    /\ [][file' # file =>
            /\ pc = "sink"
            /\ outcome' = outcome
            /\ \E k \in 1..Len(results) : file' = file \o [i \in 1..k |-> LineOf(i)]]_vars

\* the log was written after a search of two pages that found no match
C20_Witness ==
    /\ pc = "exited"
    /\ exitCode = 0
    /\ start > 1
    /\ position = NoPosition
    /\ Len(Written) = Len(results)
    /\ Len(results) > PageSize

\* C21 (termination): the search returns; it has issued at most
\* ceil(num_results / 10) * len(credentials) requests; with num_results <= 0
\* it issues no request and its outcome is empty and unmatched.
C21_RequestBound ==
    /\ num_results >= 1 => reqCount <= CeilDiv(num_results, PageSize) * Len(API_KEYS)
    /\ num_results <= 0 =>
          /\ reqCount = 0
          /\ results = << >>
          /\ position = NoPosition
          /\ found_link = NoLink
C21_Termination ==
    /\ <>Returned
    /\ []C21_RequestBound

\* a search of two pages has returned after every credential was tried on
\* both pages
C21_Witness ==
    /\ pc = "returned"
    /\ num_results > PageSize
    /\ Len(API_KEYS) > 1
    /\ reqCount = CeilDiv(num_results, PageSize) * Len(API_KEYS)

\* the latest request is for a page offset within the budget and for 1 to
\* PageSize items
WindowShape ==
    /\ lastReq.start % PageSize = 1
    /\ lastReq.start <= num_results
    /\ 1 <= lastReq.num
    /\ lastReq.num <= PageSize

\* C22 as stated (bounded result window): every request has start in
\* {1, 11, 21, ...}, start <= num_results and 1 <= num <= 10, and asks for
\* no rank beyond the budget: start + num - 1 <= num_results.
C22_BoundedWindow ==
    reqCount > 0 =>
        /\ WindowShape
        /\ lastReq.start + lastReq.num - 1 <= num_results

\* what holds of every request: the shape of the window, and a number of
\* items asked for that is within what the budget leaves after the items
\* collected before the request
C22_WithinRemaining ==
    /\ reqCount > 0 => WindowShape
    /\ pc = "attempt" => num = Min(PageSize, num_results - Len(results))

\* C23 (sealed outcome shape): once google_search has returned, position and
\* found_link are both None or both set; when set, the matched item is the
\* last collected item: position = len(results) and found_link is the link
\* of results[position - 1], so that no item that followed the match in its
\* response is collected.
C23_SealedOutcome ==
    Returned =>
        /\ (position = NoPosition) <=> (found_link = NoLink)
        /\ position # NoPosition =>
              /\ position = Len(results)
              /\ results[position].position = position
              /\ found_link = results[position].link

\* a match on the second page, in a response that holds items after it
C23_Witness ==
    /\ pc = "returned"
    /\ start > 1
    /\ position # NoPosition
    /\ found_link # NoLink
    /\ position < Len(lastItems)

====
